---- MODULE Spec2Model ----
(***************************************************************************)
(* Multi-resolution similarity registration                                *)
(* (src/medical_image_corregistration.py).                                 *)
(*                                                                         *)
(* Numbers.  The program computes in IEEE floats; the model computes on a  *)
(* fixed-point grid with One grid steps per 1.0, rounding every quotient   *)
(* to the nearest grid point (RoundDiv).  A parameter vector is            *)
(* <<s, theta, tx, ty>> on that grid.  The finite-difference step h is one  *)
(* grid step, the smallest change of a parameter the grid can express.     *)
(*                                                                         *)
(* Images.  The pixel resampling itself is done by scipy and PIL.  An      *)
(* image is modelled by its dimensions and by the placement of what it     *)
(* shows: content = <<scale, angle, x, y>> of the depicted object.  The    *)
(* library calls are modelled by what they do to the dimensions and to     *)
(* that placement.                                                         *)
(***************************************************************************)
EXTENDS Integers, Sequences, FiniteSets, TLC

VARIABLES
    pc,                 \* position of the running code
    fixed_png,          \* 'fixed_image.png' on disk (a PIL image once opened)
    moving_png,         \* 'moving_image.png' on disk
    num_pyramid_levels, \* line 146
    num_iterations,     \* line 163 / parameter of adam_optimizer
    fixed_image,        \* __main__: fixed_image after preprocessing
    moving_image,       \* __main__: moving_image after preprocessing
    fixed_pyramid,      \* __main__
    moving_pyramid,     \* __main__
    optimal_params,     \* __main__
    cost_history,       \* __main__: the driver's concatenated history
    level_it,           \* how many values of range(levels-1, -1, -1) were taken
    level,              \* __main__: loop variable
    fixed_level,        \* __main__ / fixed_image argument of adam_optimizer
    moving_level,       \* __main__ / moving_image argument of adam_optimizer
    initial_params,     \* current_params of __main__: the array passed to the solver
    trainable_params,   \* mask argument of adam_optimizer
    params,             \* adam_optimizer: params
    params_shared,      \* TRUE iff params is the same array object as initial_params
    m,                  \* adam_optimizer: first moment
    v,                  \* adam_optimizer: second moment
    t,                  \* adam_optimizer: loop variable
    history,            \* adam_optimizer: its local cost_history
    grad,               \* compute_gradient: grad
    i,                  \* compute_gradient: loop variable (1-based)
    params_plus,        \* compute_gradient: last params_plus
    params_minus,       \* compute_gradient: last params_minus
    grad_calls,         \* calls made by the running compute_gradient call
    ssd_calls,          \* argument shapes of the ssd calls of the last step
    solver_runs,        \* levels at which __main__ has called adam_optimizer
    corregistred_image, \* __main__, line 173
    call                \* last direct call of create_pyramid or similarity_transform

vars == <<pc, fixed_png, moving_png, num_pyramid_levels, num_iterations,
          fixed_image, moving_image, fixed_pyramid, moving_pyramid,
          optimal_params, cost_history, level_it, level, fixed_level,
          moving_level, initial_params, trainable_params, params,
          params_shared, m, v, t, history, grad, i, params_plus,
          params_minus, grad_calls, ssd_calls, solver_runs,
          corregistred_image, call>>

----------------------------------------------------------------------------
(* Bounds of the model *)

MaxLevels == 3      \* pyramid levels tried: 1..MaxLevels (the script uses 5)
MaxIter == 2        \* iterations per solver call tried (the script uses 300)
MaxExtra == 2       \* image sides tried: MinDim .. MinDim + MaxExtra

(* Program constants on the fixed-point grid *)

One == 100          \* the float 1.0: the grid has two decimals
NParams == 4        \* (s, theta, tx, ty)
H == 1              \* finite-difference step h: one grid step

----------------------------------------------------------------------------
(* Arithmetic *)

Abs(x) == IF x < 0 THEN -x ELSE x

\* a quotient rounded to the nearest grid point (b > 0)
RoundDiv(a, b) ==
    IF a >= 0 THEN (2 * a + b) \div (2 * b)
    ELSE -((2 * (-a) + b) \div (2 * b))

RECURSIVE Pow(_, _)
Pow(b, e) == IF e <= 0 THEN 1 ELSE b * Pow(b, e - 1)

RECURSIVE sqrt_search(_, _, _)
sqrt_search(n, lo, hi) ==
    IF lo >= hi THEN lo
    ELSE LET mid == (lo + hi + 1) \div 2
         IN  IF mid * mid <= n THEN sqrt_search(n, mid, hi)
             ELSE sqrt_search(n, lo, mid - 1)

\* np.sqrt on the grid
np_sqrt(n) == sqrt_search(n, 0, 40000)

\* Python's round(d * 0.5): ties go to the even integer
round_half(d) ==
    IF d % 2 = 0 THEN d \div 2
    ELSE IF ((d - 1) \div 2) % 2 = 0 THEN (d - 1) \div 2 ELSE (d + 1) \div 2

\* the list a Python range(n) runs over has max(n, 0) entries
range_len(n) == IF n > 0 THEN n ELSE 0

\* np.empty_like in place of np.zeros_like: whatever the memory holds
empty_like(a) == [k \in DOMAIN a |-> 1]

zeros_like(a) == [k \in DOMAIN a |-> 0]

\* np.copy: a new array object with the same values
np_copy(a) == [val |-> a, shared |-> FALSE]

Identity == <<One, 0, 0, 0>>

----------------------------------------------------------------------------
(* Images and the library calls on them *)

isndarray(img) == "shape" \in DOMAIN img

\* PIL Image.fromarray: an array of shape (rows, cols) has size (cols, rows)
Image_fromarray(a) ==
    [size |-> <<a.shape[2], a.shape[1]>>, content |-> a.content]

\* the moving picture is left at its own size
pil_resize_skipped(img, size) == img

\* PIL Image.resize(size, LANCZOS): the picture is stretched to the new size
pil_resize(img, size) ==
    [size |-> size,
     content |-> <<img.content[1], img.content[2],
                   RoundDiv(img.content[3] * size[1], img.size[1]),
                   RoundDiv(img.content[4] * size[2], img.size[2])>>]

\* np.array(pil_image): size (w, h) becomes shape (h, w)
np_array(img) ==
    [shape |-> <<img.size[2], img.size[1]>>, content |-> img.content]

\* scipy.ndimage.zoom(image, 0.5): each side becomes round(side * 0.5)
zoom(image) ==
    [shape |-> <<round_half(image.shape[1]), round_half(image.shape[2])>>,
     content |-> <<image.content[1], image.content[2],
                   RoundDiv(image.content[3], 2),
                   RoundDiv(image.content[4], 2)>>]

RECURSIVE pyramid_append(_, _)
pyramid_append(pyramid, n) ==
    IF n <= 0 THEN pyramid
    ELSE pyramid_append(Append(pyramid, zoom(pyramid[Len(pyramid)])), n - 1)

\* range(levels) in place of range(levels - 1)
create_pyramid_one_more(image, levels) ==
    pyramid_append(<<image>>, range_len(levels))

create_pyramid(image, levels) ==
    pyramid_append(<<image>>, range_len(levels - 1))

preprocess_images(fixed_img, moving_img) ==
    LET fixed_img_pil ==
            IF isndarray(fixed_img) THEN Image_fromarray(fixed_img)
            ELSE fixed_img
        moving_img_pil ==
            IF isndarray(moving_img) THEN Image_fromarray(moving_img)
            ELSE moving_img
        moving_img_resized == pil_resize(moving_img_pil, fixed_img_pil.size)
        fixed_array == np_array(fixed_img_pil)
        moving_array == np_array(moving_img_resized)
    IN  <<fixed_array, moving_array>>

----------------------------------------------------------------------------
(* similarity_transform *)

\* a float quotient a / b kept as a fraction; a zero divisor is an error
true_div(a, b) ==
    IF b = 0 THEN [ok |-> FALSE, num |-> 0, den |-> 0]
    ELSE [ok |-> TRUE, num |-> a, den |-> b]

\* the quotient without its guard
inv_scale_unguarded(s) == true_div(One, s)

\* line 61: inv_s = 1.0 / s if s != 0 else 1.0
inv_scale(s) ==
    IF s # 0 THEN true_div(One, s) ELSE [ok |-> TRUE, num |-> One, den |-> One]

\* scipy.ndimage.affine_transform(image, matrix, offset): the output has the
\* shape of the input; what it shows is the input moved by the forward map
affine_transform(image, matrix, offset) ==
    [shape |-> image.shape,
     content |-> <<RoundDiv(image.content[1] * matrix.inv_s.den, matrix.inv_s.num),
                   image.content[2] - matrix.inv_theta,
                   image.content[3] + offset.translation[2],
                   image.content[4] + offset.translation[1]>>]

similarity_transform(image, p) ==
    LET s == p[1]
        theta == p[2]
        tx == p[3]
        ty == p[4]
        center == <<RoundDiv(image.shape[1] * One, 2),
                    RoundDiv(image.shape[2] * One, 2)>>
        inv_s == inv_scale(s)
        inv_theta == -theta
        matrix == [inv_theta |-> inv_theta, inv_s |-> inv_s]
        translation == <<ty, tx>>
        offset == [center |-> center, translation |-> translation]
    IN  IF ~inv_s.ok
        THEN [outcome |-> "raised", inv_s |-> inv_s, image |-> image]
        ELSE [outcome |-> "returned", inv_s |-> inv_s,
              image |-> affine_transform(image, matrix, offset)]

\* np.sum((image1 - image2)**2)
ssd(image1, image2) ==
    LET d(k) == image1.content[k] - image2.content[k]
    IN  d(1) * d(1) + d(2) * d(2) + d(3) * d(3) + d(4) * d(4)

cost_at(fixed, moving, p) == ssd(fixed, similarity_transform(moving, p).image)

----------------------------------------------------------------------------
(* compute_gradient and the Adam arithmetic *)

perturb(p, k, delta) == [p EXCEPT ![k] = @ + delta]

\* params + h: the step is added to every entry
params_plus_broadcast(p, k, h) == [j \in DOMAIN p |-> p[j] + h]

params_plus_of(p, k, h) == perturb(np_copy(p).val, k, h)

params_minus_of(p, k, h) == perturb(np_copy(p).val, k, -h)

\* line 107
grad_entry(cost_plus, cost_minus, h) == RoundDiv(cost_plus - cost_minus, 2 * h)

\* driver, line 162
learning_rate == One \div 10

\* beta1 = 0.9, beta2 = 0.999 (line 110) as fractions
Beta1Num == 9
Beta1Den == 10
Beta2Num == 999
Beta2Den == 1000
\* epsilon = 1e-8 (line 110) is below the grid: it rounds to 0 there
Epsilon == 0

\* scales of the fixed-point moments: m carries One, v carries One^2
PowScale == One * One * One

RECURSIVE beta_pow(_, _, _)
\* beta ** e on a grid of PowScale steps per 1.0
beta_pow(num, den, e) ==
    IF e <= 0 THEN PowScale ELSE RoundDiv(num * beta_pow(num, den, e - 1), den)

\* line 124
next_m(m0, g) ==
    [k \in DOMAIN m0 |->
        RoundDiv(Beta1Num * m0[k] + (Beta1Den - Beta1Num) * g[k] * One, Beta1Den)]

\* line 125
next_v(v0, g) ==
    [k \in DOMAIN v0 |->
        RoundDiv(Beta2Num * v0[k]
                 + (Beta2Den - Beta2Num) * (g[k] * g[k]) * One * One, Beta2Den)]

\* line 126: m / (1 - beta1**t)
m_hat_of(m1, tt) ==
    [k \in DOMAIN m1 |->
        RoundDiv(m1[k] * One * One,
                 RoundDiv(PowScale - beta_pow(Beta1Num, Beta1Den, tt), One))]

\* line 127: v / (1 - beta2**t)
v_hat_of(v1, tt) ==
    [k \in DOMAIN v1 |->
        RoundDiv(v1[k] * Beta2Den,
                 RoundDiv(PowScale - beta_pow(Beta2Num, Beta2Den, tt), Beta2Den))]

\* line 129: learning_rate * m_hat / (np.sqrt(v_hat) + epsilon).  With the
\* root 0 on the grid the quotient is m_hat / epsilon with m_hat = 0.
update_of(lr, m_hat, v_hat) ==
    [k \in DOMAIN m_hat |->
        LET den == np_sqrt(v_hat[k]) + Epsilon
        IN  IF den = 0 THEN 0 ELSE RoundDiv(lr * m_hat[k], den)]

\* params -= update: the mask is ignored
unmasked_sub(p, update, mask) == [k \in DOMAIN p |-> p[k] - update[k]]

\* line 130: params[trainable_params] -= update[trainable_params]
masked_sub(p, update, mask) ==
    [k \in DOMAIN p |-> IF mask[k] THEN p[k] - update[k] ELSE p[k]]

\* range(1, num_iterations): one iteration short
iterations_short(n) == 1 .. (n - 1)

\* line 117: range(1, num_iterations + 1)
iterations(n) == 1 .. n

----------------------------------------------------------------------------
(* Inputs *)

MinDim == Pow(2, MaxLevels - 1)

Dims == MinDim .. MinDim + MaxExtra

NoImage == [shape |-> <<0, 0>>, content |-> <<0, 0, 0, 0>>]

NoPng == [size |-> <<0, 0>>, content |-> <<0, 0, 0, 0>>]

NoCall ==
    [fn |-> "none", image |-> NoImage, levels |-> 0, p |-> <<0, 0, 0, 0>>,
     outcome |-> "none", pyramid |-> <<>>, inv_s |-> true_div(0, 0),
     result |-> NoImage]

Zeros == <<0, 0, 0, 0>>

AllTrainable == <<TRUE, TRUE, TRUE, TRUE>>

\* what the fixed picture shows, and what the moving picture may show
FixedContent == Identity

MovingContents ==
    {Identity, <<One + 10, -8, 12, -16>>, <<One - 10, 4, -20, 12>>}

FixedPngs == {[size |-> <<w, h>>, content |-> FixedContent] : w \in Dims, h \in Dims}

MovingPngs ==
    {[size |-> <<w, h>>, content |-> c] :
        w \in {MinDim - 1, MinDim + MaxExtra}, h \in {MinDim}, c \in MovingContents}

----------------------------------------------------------------------------
(* __main__ *)

\* range(num_pyramid_levels): finest level first
level_range_ascending(n) == [k \in 1 .. range_len(n) |-> k - 1]

\* line 153: the values of range(num_pyramid_levels - 1, -1, -1)
level_range(n) == [k \in 1 .. range_len(n) |-> n - k]

\* line 158
scale_factor_of(l) == Pow(2, l)

\* current_params /= scale_factor: every entry is divided
to_level_all(p, f) ==
    <<RoundDiv(p[1], f), RoundDiv(p[2], f), RoundDiv(p[3], f), RoundDiv(p[4], f)>>

\* line 160: current_params[2:] /= scale_factor
to_level(p, f) == <<p[1], p[2], RoundDiv(p[3], f), RoundDiv(p[4], f)>>

\* line 171: optimal_params[2:] *= scale_factor
from_level(p, f) == <<p[1], p[2], p[3] * f, p[4] * f>>

\* lines 140-144
Preprocess ==
    /\ pc = "main"
    /\ LET r == preprocess_images(fixed_png, moving_png)
       IN  /\ fixed_image' = r[1]
           /\ moving_image' = r[2]
    /\ pc' = "pyramids"
    /\ UNCHANGED <<fixed_png, moving_png, num_pyramid_levels, num_iterations,
                   fixed_pyramid, moving_pyramid, optimal_params, cost_history,
                   level_it, level, fixed_level, moving_level, initial_params,
                   trainable_params, params, params_shared, m, v, t, history,
                   grad, i, params_plus, params_minus, grad_calls, ssd_calls,
                   solver_runs, corregistred_image, call>>

\* lines 146-151
BuildPyramids ==
    /\ pc = "pyramids"
    /\ fixed_pyramid' = create_pyramid(fixed_image, num_pyramid_levels)
    /\ moving_pyramid' = create_pyramid(moving_image, num_pyramid_levels)
    /\ optimal_params' = Identity
    /\ cost_history' = <<>>
    /\ level_it' = 0
    /\ pc' = "for_level"
    /\ UNCHANGED <<fixed_png, moving_png, num_pyramid_levels, num_iterations,
                   fixed_image, moving_image, level, fixed_level, moving_level,
                   initial_params, trainable_params, params, params_shared, m,
                   v, t, history, grad, i, params_plus, params_minus,
                   grad_calls, ssd_calls, solver_runs, corregistred_image,
                   call>>

\* lines 153-166: one more level, up to the call of adam_optimizer
LevelBegin ==
    /\ pc = "for_level"
    /\ level_it < Len(level_range(num_pyramid_levels))
    /\ LET l == level_range(num_pyramid_levels)[level_it + 1]
           current_params == np_copy(optimal_params).val
       IN  /\ level' = l
           /\ fixed_level' = fixed_pyramid[l + 1]
           /\ moving_level' = moving_pyramid[l + 1]
           /\ initial_params' = to_level(current_params, scale_factor_of(l))
           /\ solver_runs' = Append(solver_runs, l)
    /\ level_it' = level_it + 1
    /\ trainable_params' = AllTrainable
    /\ pc' = "adam_entry"
    /\ UNCHANGED <<fixed_png, moving_png, num_pyramid_levels, num_iterations,
                   fixed_image, moving_image, fixed_pyramid, moving_pyramid,
                   optimal_params, cost_history, params, params_shared, m, v,
                   t, history, grad, i, params_plus, params_minus, grad_calls,
                   ssd_calls, corregistred_image, call>>

\* lines 165-171: the solver has returned (current_params, history)
LevelEnd ==
    /\ pc = "returned"
    /\ initial_params' = params
    /\ cost_history' = cost_history \o history
    /\ optimal_params' = from_level(np_copy(params).val, scale_factor_of(level))
    /\ pc' = "for_level"
    /\ UNCHANGED <<fixed_png, moving_png, num_pyramid_levels, num_iterations,
                   fixed_image, moving_image, fixed_pyramid, moving_pyramid,
                   level_it, level, fixed_level, moving_level,
                   trainable_params, params, params_shared, m, v, t, history,
                   grad, i, params_plus, params_minus, grad_calls, ssd_calls,
                   solver_runs, corregistred_image, call>>

\* line 173, after the last level
Finish ==
    /\ pc = "for_level"
    /\ level_it >= Len(level_range(num_pyramid_levels))
    /\ corregistred_image' = similarity_transform(moving_image, optimal_params).image
    /\ pc' = "done"
    /\ UNCHANGED <<fixed_png, moving_png, num_pyramid_levels, num_iterations,
                   fixed_image, moving_image, fixed_pyramid, moving_pyramid,
                   optimal_params, cost_history, level_it, level, fixed_level,
                   moving_level, initial_params, trainable_params, params,
                   params_shared, m, v, t, history, grad, i, params_plus,
                   params_minus, grad_calls, ssd_calls, solver_runs, call>>

----------------------------------------------------------------------------
(* adam_optimizer and compute_gradient *)

\* lines 112-115; t is the next value the loop of line 117 takes
AdamInit ==
    /\ pc = "adam_entry"
    /\ params' = np_copy(initial_params).val
    /\ params_shared' = np_copy(initial_params).shared
    /\ history' = <<>>
    /\ m' = zeros_like(initial_params)
    /\ v' = zeros_like(initial_params)
    /\ t' = 1
    /\ pc' = "adam_loop"
    /\ UNCHANGED <<fixed_png, moving_png, num_pyramid_levels, num_iterations,
                   fixed_image, moving_image, fixed_pyramid, moving_pyramid,
                   optimal_params, cost_history, level_it, level, fixed_level,
                   moving_level, initial_params, trainable_params, grad, i,
                   params_plus, params_minus, grad_calls, ssd_calls,
                   solver_runs, corregistred_image, call>>

\* lines 117-122: the cost of the current params is appended, then
\* compute_gradient is entered (line 93)
AdamCost ==
    /\ pc = "adam_loop"
    /\ t \in iterations(num_iterations)
    /\ LET transformed_moving == similarity_transform(moving_level, params).image
           cost == ssd(fixed_level, transformed_moving)
       IN  /\ history' = Append(history, cost)
           /\ ssd_calls' = {<<fixed_level.shape, transformed_moving.shape>>}
    /\ grad' = zeros_like(params)
    /\ i' = 1
    /\ grad_calls' = [transform |-> 0, ssd |-> 0]
    /\ pc' = "grad"
    /\ UNCHANGED <<fixed_png, moving_png, num_pyramid_levels, num_iterations,
                   fixed_image, moving_image, fixed_pyramid, moving_pyramid,
                   optimal_params, cost_history, level_it, level, fixed_level,
                   moving_level, initial_params, trainable_params, params,
                   params_shared, m, v, t, params_plus, params_minus,
                   solver_runs, corregistred_image, call>>

\* lines 94-107: one pass of compute_gradient's loop; after the last index
\* the gradient is returned to line 122
GradStep ==
    /\ pc = "grad"
    /\ i <= Len(params)
    /\ LET plus == params_plus_of(params, i, H)
           minus == params_minus_of(params, i, H)
           transformed_plus == similarity_transform(moving_level, plus).image
           cost_plus == ssd(fixed_level, transformed_plus)
           transformed_minus == similarity_transform(moving_level, minus).image
           cost_minus == ssd(fixed_level, transformed_minus)
       IN  /\ params_plus' = plus
           /\ params_minus' = minus
           /\ grad' = [grad EXCEPT ![i] = grad_entry(cost_plus, cost_minus, H)]
           /\ ssd_calls' = {<<fixed_level.shape, transformed_plus.shape>>,
                            <<fixed_level.shape, transformed_minus.shape>>}
    /\ grad_calls' = [transform |-> grad_calls.transform + 2,
                      ssd |-> grad_calls.ssd + 2]
    /\ i' = i + 1
    /\ pc' = IF i = Len(params) THEN "update" ELSE "grad"
    /\ UNCHANGED <<fixed_png, moving_png, num_pyramid_levels, num_iterations,
                   fixed_image, moving_image, fixed_pyramid, moving_pyramid,
                   optimal_params, cost_history, level_it, level, fixed_level,
                   moving_level, initial_params, trainable_params, params,
                   params_shared, m, v, t, history, solver_runs,
                   corregistred_image, call>>

\* lines 124-130, and the loop's step to the next t
AdamUpdate ==
    /\ pc = "update"
    /\ LET m1 == next_m(m, grad)
           v1 == next_v(v, grad)
           m_hat == m_hat_of(m1, t)
           v_hat == v_hat_of(v1, t)
           update == update_of(learning_rate, m_hat, v_hat)
           p1 == masked_sub(params, update, trainable_params)
       IN  /\ m' = m1
           /\ v' = v1
           /\ params' = p1
           /\ initial_params' = IF params_shared THEN p1 ELSE initial_params
    /\ t' = t + 1
    /\ pc' = "adam_loop"
    /\ UNCHANGED <<fixed_png, moving_png, num_pyramid_levels, num_iterations,
                   fixed_image, moving_image, fixed_pyramid, moving_pyramid,
                   optimal_params, cost_history, level_it, level, fixed_level,
                   moving_level, trainable_params, params_shared, history,
                   grad, i, params_plus, params_minus, grad_calls, ssd_calls,
                   solver_runs, corregistred_image, call>>

\* line 135
AdamReturn ==
    /\ pc = "adam_loop"
    /\ t \notin iterations(num_iterations)
    /\ pc' = "returned"
    /\ UNCHANGED <<fixed_png, moving_png, num_pyramid_levels, num_iterations,
                   fixed_image, moving_image, fixed_pyramid, moving_pyramid,
                   optimal_params, cost_history, level_it, level, fixed_level,
                   moving_level, initial_params, trainable_params, params,
                   params_shared, m, v, t, history, grad, i, params_plus,
                   params_minus, grad_calls, ssd_calls, solver_runs,
                   corregistred_image, call>>

----------------------------------------------------------------------------
(* Direct calls of create_pyramid and similarity_transform *)

\* create_pyramid has no raise statement and no check of levels
create_pyramid_outcome(image, levels) == "returned"

UnitImages ==
    {[shape |-> <<r, c>>, content |-> k] :
        r \in Dims, c \in Dims, k \in {<<One, 0, 24, -16>>}}

UnitLevels == -1 .. MaxLevels

UnitParams ==
    {<<s, theta, tx, ty>> :
        s \in {0, One, -One, One \div 2, 2 * One}, theta \in {0, 30 * One},
        tx \in {0, 3 * One}, ty \in {0, -One}}

CallCreatePyramid ==
    /\ pc = "unit"
    /\ \E image \in UnitImages, levels \in UnitLevels :
          call' = [NoCall EXCEPT
                      !.fn = "create_pyramid",
                      !.image = image,
                      !.levels = levels,
                      !.outcome = create_pyramid_outcome(image, levels),
                      !.pyramid = create_pyramid(image, levels)]
    /\ UNCHANGED <<pc, fixed_png, moving_png, num_pyramid_levels, num_iterations,
                   fixed_image, moving_image, fixed_pyramid, moving_pyramid,
                   optimal_params, cost_history, level_it, level, fixed_level,
                   moving_level, initial_params, trainable_params, params,
                   params_shared, m, v, t, history, grad, i, params_plus,
                   params_minus, grad_calls, ssd_calls, solver_runs,
                   corregistred_image>>

CallSimilarityTransform ==
    /\ pc = "unit"
    /\ \E image \in UnitImages, p \in UnitParams :
          LET r == similarity_transform(image, p)
          IN  call' = [NoCall EXCEPT
                          !.fn = "similarity_transform",
                          !.image = image,
                          !.p = p,
                          !.outcome = r.outcome,
                          !.inv_s = r.inv_s,
                          !.result = r.image]
    /\ UNCHANGED <<pc, fixed_png, moving_png, num_pyramid_levels, num_iterations,
                   fixed_image, moving_image, fixed_pyramid, moving_pyramid,
                   optimal_params, cost_history, level_it, level, fixed_level,
                   moving_level, initial_params, trainable_params, params,
                   params_shared, m, v, t, history, grad, i, params_plus,
                   params_minus, grad_calls, ssd_calls, solver_runs,
                   corregistred_image>>

----------------------------------------------------------------------------
(* Specifications *)

Blank ==
    /\ fixed_image = NoImage
    /\ moving_image = NoImage
    /\ fixed_pyramid = <<>>
    /\ moving_pyramid = <<>>
    /\ optimal_params = Zeros
    /\ cost_history = <<>>
    /\ level_it = 0
    /\ level = 0
    /\ params = Zeros
    /\ params_shared = FALSE
    /\ m = Zeros
    /\ v = Zeros
    /\ t = 0
    /\ history = <<>>
    /\ grad = Zeros
    /\ i = 0
    /\ params_plus = Zeros
    /\ params_minus = Zeros
    /\ grad_calls = [transform |-> 0, ssd |-> 0]
    /\ ssd_calls = {}
    /\ solver_runs = <<>>
    /\ corregistred_image = NoImage
    /\ call = NoCall

\* the script: two image files, a number of levels and of iterations
Init ==
    /\ pc = "main"
    /\ fixed_png \in FixedPngs
    /\ moving_png \in MovingPngs
    /\ num_pyramid_levels \in 1 .. MaxLevels
    /\ num_iterations \in 1 .. MaxIter
    /\ fixed_level = NoImage
    /\ moving_level = NoImage
    /\ initial_params = Zeros
    /\ trainable_params = AllTrainable
    /\ Blank

Next ==
    \/ Preprocess
    \/ BuildPyramids
    \/ LevelBegin
    \/ AdamInit
    \/ AdamCost
    \/ GradStep
    \/ AdamUpdate
    \/ AdamReturn
    \/ LevelEnd
    \/ Finish

Spec == Init /\ [][Next]_vars

\* one call of adam_optimizer with any mask, on two images of one shape
AdamImages ==
    {[shape |-> <<MinDim, MinDim + 1>>, content |-> c] : c \in MovingContents}

AdamStarts == {Identity, <<One + 5, 3, -7, 12>>}

InitAdam ==
    /\ pc = "adam_entry"
    /\ fixed_png = NoPng
    /\ moving_png = NoPng
    /\ num_pyramid_levels = 0
    /\ num_iterations \in 0 .. MaxIter
    /\ fixed_level = [shape |-> <<MinDim, MinDim + 1>>, content |-> FixedContent]
    /\ moving_level \in AdamImages
    /\ initial_params \in AdamStarts
    /\ trainable_params \in [1 .. NParams -> BOOLEAN]
    /\ Blank

NextAdam ==
    \/ AdamInit
    \/ AdamCost
    \/ GradStep
    \/ AdamUpdate
    \/ AdamReturn

SpecAdam == InitAdam /\ [][NextAdam]_vars

\* direct calls of the two pure functions
InitUnit ==
    /\ pc = "unit"
    /\ fixed_png = NoPng
    /\ moving_png = NoPng
    /\ num_pyramid_levels = 0
    /\ num_iterations = 0
    /\ fixed_level = NoImage
    /\ moving_level = NoImage
    /\ initial_params = Zeros
    /\ trainable_params = AllTrainable
    /\ Blank

NextUnit ==
    \/ CallCreatePyramid
    \/ CallSimilarityTransform

SpecUnit == InitUnit /\ [][NextUnit]_vars

\* the solver runs in one thread: a step that can be taken is taken
SpecAdamFair == InitAdam /\ [][NextAdam]_vars /\ WF_vars(NextAdam)

----------------------------------------------------------------------------
(* Properties *)

InSolver == pc \in {"adam_loop", "grad", "update", "returned"}

IsPrefix(a, b) == Len(a) <= Len(b) /\ SubSeq(b, 1, Len(a)) = a

\* C1: in adam_optimizer a parameter whose mask entry is false keeps the value
\* it has in initial_params, after any number of iterations and whatever the
\* gradient is; only parameters whose mask entry is true can change.
C1_MaskRespected ==
    InSolver =>
        \A k \in 1 .. NParams :
            ~trainable_params[k] => params[k] = initial_params[k]

C1_Witness ==
    /\ pc = "returned"
    /\ t > MaxIter
    /\ \E k \in 1 .. NParams : ~trainable_params[k] /\ grad[k] # 0
    /\ \E k \in 1 .. NParams : trainable_params[k] /\ params[k] # initial_params[k]

\* C2: for levels >= 1 create_pyramid returns exactly `levels` images, the
\* first is the input unchanged, each side of entry k is the input's side
\* divided by 2^k within rounding (less than one pixel away), and each entry
\* has the sides of the entry before it halved.
C2_PyramidShape ==
    (call.fn = "create_pyramid" /\ call.levels >= 1) =>
        /\ call.outcome = "returned"
        /\ Len(call.pyramid) = call.levels
        /\ call.pyramid[1] = call.image
        /\ \A k \in 1 .. Len(call.pyramid) : \A d \in 1 .. 2 :
              /\ Abs(call.pyramid[k].shape[d] * Pow(2, k - 1) - call.image.shape[d])
                    < Pow(2, k - 1)
              /\ k > 1 =>
                    Abs(2 * call.pyramid[k].shape[d] - call.pyramid[k - 1].shape[d]) <= 1

C2_Witness ==
    /\ call.fn = "create_pyramid"
    /\ call.levels = MaxLevels
    /\ Len(call.pyramid) = MaxLevels
    /\ call.image.shape[1] % 2 = 1
    /\ call.pyramid[MaxLevels].shape[1] * Pow(2, MaxLevels - 1) # call.image.shape[1]

\* C3: create_pyramid called with levels <= 0 ends in an error and returns no
\* pyramid.
C3_RejectsNoLevels ==
    (call.fn = "create_pyramid" /\ call.levels <= 0) =>
        (call.outcome = "raised" /\ call.pyramid = <<>>)

\* C4: in a run of the script the two images have the same dimensions after
\* preprocessing, the two pyramids have the same dimensions at every level,
\* the resampler returns an image of its input's shape, and so every call of
\* the cost gets two images of identical dimensions.
C4_SameShapeAtCost ==
    /\ \A c \in ssd_calls : c[1] = c[2]
    /\ pc # "main" => fixed_image.shape = moving_image.shape
    /\ pc \notin {"main", "pyramids"} =>
          /\ Len(fixed_pyramid) = Len(moving_pyramid)
          /\ \A k \in 1 .. Len(fixed_pyramid) :
                fixed_pyramid[k].shape = moving_pyramid[k].shape
    /\ pc = "done" => corregistred_image.shape = moving_image.shape

C4_Witness ==
    /\ pc = "update"
    /\ level = 0
    /\ ssd_calls # {}
    /\ moving_png.size # fixed_png.size
    /\ fixed_png.size[1] # fixed_png.size[2]
    /\ \A c \in ssd_calls : c[1] = <<fixed_png.size[2], fixed_png.size[1]>>

\* the history against the loop variable and the parameters, state by state
C5_HistoryState ==
    /\ pc = "adam_loop" => Len(history) = t - 1
    /\ pc \in {"grad", "update"} =>
          /\ Len(history) = t
          /\ history[t] = cost_at(fixed_level, moving_level, params)
    /\ (InSolver /\ Len(history) >= 1) =>
          history[1] = cost_at(fixed_level, moving_level, initial_params)
    /\ pc = "returned" => (Len(history) = num_iterations /\ t = num_iterations + 1)
    /\ InSolver => t <= num_iterations + 1

\* a step inside the solver appends at most one entry and changes none
C5_HistoryStep ==
    InSolver =>
        /\ IsPrefix(history, history')
        /\ Len(history') <= Len(history) + 1

\* C5: adam_optimizer stops after exactly num_iterations iterations, whatever
\* the costs and gradients are; its history gets one entry per iteration, in
\* order, the entry of iteration t being the cost of the parameters before the
\* update of iteration t (so the first is the cost at initial_params), and it
\* returns with exactly num_iterations entries.
C5_FixedIterations ==
    /\ []C5_HistoryState
    /\ [][C5_HistoryStep]_vars
    /\ <>(pc = "returned")

C5_Witness ==
    /\ pc = "returned"
    /\ num_iterations = MaxIter
    /\ Len(history) = MaxIter
    /\ history[1] # history[MaxIter]
    /\ \A k \in 1 .. Len(history) :
          history[k] # cost_at(fixed_level, moving_level, params)

\* the levels called so far and the length of the script's history
C6_LevelsState ==
    /\ pc \notin {"main", "pyramids"} =>
          /\ Len(solver_runs) = level_it
          /\ \A k \in 1 .. Len(solver_runs) :
                solver_runs[k] = num_pyramid_levels - k
    /\ pc = "for_level" => Len(cost_history) = level_it * num_iterations
    /\ (pc = "adam_entry" \/ InSolver) =>
          Len(cost_history) = (level_it - 1) * num_iterations
    /\ pc = "adam_entry" =>
          initial_params =
              IF level_it = 1 THEN Identity
              ELSE <<params[1], params[2], 2 * params[3], 2 * params[4]>>
    /\ pc = "done" =>
          /\ Len(solver_runs) = num_pyramid_levels
          /\ Len(cost_history) = num_pyramid_levels * num_iterations

\* a step of the script only appends, and a return appends the call's history
C6_HistoryStep ==
    /\ IsPrefix(cost_history, cost_history') \/ pc = "pyramids"
    /\ pc = "returned" => cost_history' = cost_history \o history

\* C6: the script calls the solver once per pyramid level, from level
\* levels-1 down to level 0, each call starting from the parameters the call
\* before it returned; its cost history is the per-level histories appended in
\* that order, is only ever appended to, and ends with levels times the
\* iteration count entries.
C6_CoarseToFine == []C6_LevelsState /\ [][C6_HistoryStep]_vars

C6_Witness ==
    /\ pc = "done"
    /\ num_pyramid_levels = MaxLevels
    /\ num_iterations = MaxIter
    /\ solver_runs[1] = MaxLevels - 1
    /\ solver_runs[MaxLevels] = 0
    /\ Len(cost_history) = MaxLevels * MaxIter

\* C7: at each level the script changes only tx and ty when it hands the
\* parameters over: they are divided by 2^level before the solver runs and
\* the solver's tx and ty are multiplied by 2^level afterwards; scale and
\* rotation go in and come out unchanged; after level 0 the result is the
\* solver's result itself.
C7_OnlyTranslationRescaled ==
    /\ pc = "adam_entry" =>
          /\ initial_params[1] = optimal_params[1]
          /\ initial_params[2] = optimal_params[2]
          /\ initial_params[3] * Pow(2, level) = optimal_params[3]
          /\ initial_params[4] * Pow(2, level) = optimal_params[4]
    /\ (pc = "for_level" /\ level_it >= 1) =>
          /\ optimal_params[1] = params[1]
          /\ optimal_params[2] = params[2]
          /\ optimal_params[3] = params[3] * Pow(2, level)
          /\ optimal_params[4] = params[4] * Pow(2, level)
    /\ pc = "done" => optimal_params = params

C7_Witness ==
    /\ pc = "adam_entry"
    /\ level = 1
    /\ num_pyramid_levels = MaxLevels
    /\ optimal_params[3] # 0
    /\ optimal_params[1] # One
    /\ initial_params[3] # optimal_params[3]

\* C8: similarity_transform with s = 0 does not fail: it takes 1 as the
\* inverse scale, divides by no zero and returns an image of the input's
\* shape; for s # 0 the inverse scale is 1/s.
C8_ZeroScaleGuard ==
    call.fn = "similarity_transform" =>
        /\ call.outcome = "returned"
        /\ call.inv_s.ok
        /\ call.inv_s.den # 0
        /\ call.p[1] = 0 => call.inv_s.num = call.inv_s.den
        /\ call.p[1] # 0 => call.inv_s.num * call.p[1] = call.inv_s.den * One
        /\ call.result.shape = call.image.shape

C8_Witness ==
    /\ call.fn = "similarity_transform"
    /\ call.p[1] = 0
    /\ call.p[3] # 0
    /\ call.outcome = "returned"
    /\ call.result.content[1] = call.image.content[1]

\* the state right after lines 112-115
C9_FreshState ==
    (pc = "adam_loop" /\ history = <<>>) =>
        (t = 1 /\ m = <<0, 0, 0, 0>> /\ v = <<0, 0, 0, 0>>)

\* a step inside a call leaves the caller's array alone
C9_CallerArrayKept ==
    ((pc = "adam_entry" \/ InSolver) /\ (pc' = "adam_entry" \/ InSolver')) =>
        initial_params' = initial_params

\* C9: at the start of every adam_optimizer call the moments m and v are
\* zero and t is 1, also at the later levels of the script, where only the
\* parameter values come from the level before; and a call leaves the
\* caller's initial_params array as it was.
C9_FreshPerCall == []C9_FreshState /\ [][C9_CallerArrayKept]_vars

C9_Witness ==
    /\ pc = "adam_loop"
    /\ history = <<>>
    /\ level_it >= 2
    /\ cost_history # <<>>
    /\ m = <<0, 0, 0, 0>>
    /\ params # Identity

\* the calls counted and the last perturbed parameter sets
C10_GradState ==
    /\ pc = "grad" =>
          (grad_calls.transform = 2 * (i - 1) /\ grad_calls.ssd = 2 * (i - 1))
    /\ pc = "update" =>
          (grad_calls.transform = 2 * NParams /\ grad_calls.ssd = 2 * NParams)
    /\ (pc \in {"grad", "update"} /\ i > 1) =>
          \A k \in 1 .. NParams :
              /\ params_plus[k] - params[k] = IF k = i - 1 THEN H ELSE 0
              /\ params[k] - params_minus[k] = IF k = i - 1 THEN H ELSE 0

\* a pass of compute_gradient's loop leaves params alone
C10_ParamsKept == pc = "grad" => params' = params

\* C10: one compute_gradient call makes exactly 2 resamples and 2 cost
\* evaluations per parameter (8 of each for the 4 parameters); each perturbed
\* parameter set differs from params at exactly one index, by +h or by -h;
\* and params is the same when the call returns.
C10_GradientCalls == []C10_GradState /\ [][C10_ParamsKept]_vars

C10_Witness ==
    /\ pc = "update"
    /\ grad_calls = [transform |-> 8, ssd |-> 8]
    /\ \A k \in 1 .. NParams : grad[k] # 0

====
